---- MODULE Spec2Model ----
(***************************************************************************)
(* Heimdallr DICOM listener (src/dicom_listener.py): the C-STORE handler   *)
(* threads (on_c_store), the scanner that runs scan_and_flush on the main  *)
(* thread, the signal handler (stop) and the files they share; and the     *)
(* processing daemon (src/run.py): the main loop of main, the worker       *)
(* threads of its executor and the completion callback on_complete.        *)
(*                                                                         *)
(* Strings are sequences of one-character strings.  Time is the integer    *)
(* number of seconds returned by now().  Every labelled step of a thread   *)
(* is one action; the threads interleave freely, as the code takes no lock.*)
(***************************************************************************)
EXTENDS Integers, Sequences, FiniteSets, TLC

\* ------------------------------------------------------------------ bounds
\* number of C-STORE requests the senders make in a behaviour
MaxImages == 2
\* last second of the modelled time window
MaxTime == 3
\* length of the strings from which the arguments of sanitize_filename are
\* built
MaxLen == 3

\* ------------------------------------------------- configuration (scaled)
\* --idle-seconds, --scan-seconds, --upload-retries, --upload-backoff
IdleSeconds == 2
ScanSeconds == 1
UploadRetries == 2
UploadBackoff == 1

\* DICOM status codes returned by on_c_store (0x0000, 0xA700)
Success == 0
Failure == 42752
\* no status returned yet
NoStatus == 0 - 1

\* length cap of sanitize_filename
NameCap == 200

\* ------------------------------------------------------------ pure helpers
Min(a, b) == IF a < b THEN a ELSE b

\* characters: one-character strings; a character outside ASCII is written as
\* its code point
Letters ==
    {"a", "b", "c", "d", "e", "f", "g", "h", "i", "j", "k", "l", "m",
     "n", "o", "p", "q", "r", "s", "t", "u", "v", "w", "x", "y", "z"}
DigitChars == {"0", "1", "2", "3", "4", "5", "6", "7", "8", "9"}
\* e with acute accent, superscript two: str.isalnum() is True for both
NonAsciiAlnum == {"U+00E9", "U+00B2"}
\* rightwards arrow: str.isalnum() is False
NonAsciiOther == {"U+2192"}

AlnumChars == Letters \cup DigitChars \cup NonAsciiAlnum
PunctChars == {"-", "_", "."}
Whitespace == {" "}

\* mutant: every character counts as alphanumeric
IsAlnumAlways(c) == TRUE

\* str.isalnum() of one character
IsAlnum(c) == c \in AlnumChars

Unknown == <<"u", "n", "k", "n", "o", "w", "n">>

\* "".join(c for c in s if c.isalnum() or c in ("-", "_", "."))[:200] or "unknown"
sanitize_filename(s) ==
    LET kept == SelectSeq(s, LAMBDA c : IsAlnum(c) \/ c \in PunctChars)
        cut  == SubSeq(kept, 1, Min(Len(kept), NameCap))
    IN  IF cut = <<>> THEN Unknown ELSE cut

RECURSIVE LStrip(_)
LStrip(s) == IF s # <<>> /\ Head(s) \in Whitespace THEN LStrip(Tail(s)) ELSE s

RECURSIVE RStrip(_)
RStrip(s) ==
    IF s # <<>> /\ s[Len(s)] \in Whitespace
    THEN RStrip(SubSeq(s, 1, Len(s) - 1)) ELSE s

\* str.strip()
Strip(s) == RStrip(LStrip(s))

\* f"study_unknown_"
StudyUnknown ==
    <<"s", "t", "u", "d", "y", "_", "u", "n", "k", "n", "o", "w", "n", "_">>

\* str(n) of a natural number, as a sequence of digit characters
DigitChar(d) == <<"0", "1", "2", "3", "4", "5", "6", "7", "8", "9">>[d + 1]
RECURSIVE Digits(_)
Digits(n) ==
    IF n < 10 THEN <<DigitChar(n)>>
    ELSE Append(Digits(n \div 10), DigitChar(n % 10))

\* mutant: no identifier is synthesized for a dataset without one
StudyUidNoFallback(ds, t) == Strip(ds.study)

\* line 252-255: the study identifier of a dataset received at time t
\* (now() is whole seconds here, int(now() * 1000) its milliseconds)
StudyUid(ds, t) ==
    IF Strip(ds.study) # <<>> THEN Strip(ds.study)
    ELSE StudyUnknown \o Digits(t * 1000)

\* the datasets the senders may push: StudyInstanceUID, SeriesInstanceUID,
\* SOPInstanceUID
Datasets ==
    { [study |-> <<"a">>,      series |-> <<"s">>, sop |-> <<"1">>],
      [study |-> <<"a">>,      series |-> <<"s">>, sop |-> <<"2">>],
      [study |-> <<".", "/">>, series |-> <<"s">>, sop |-> <<"3">>],
      [study |-> <<>>,         series |-> <<"s">>, sop |-> <<"4">>],
      [study |-> <<" ">>,      series |-> <<"s">>, sop |-> <<"4">>] }

\* the association threads that call on_c_store
Handlers == {1, 2}

\* ------------------------------------------------------------------- state
VARIABLES
    clock,      \* now(), whole seconds
    objs,       \* the StudyState objects constructed so far, by reference
    studies,    \* listener.studies: insertion-ordered dict key -> reference
    dirs,       \* study directories that exist under incoming_dir
    files,      \* files under incoming_dir: [dir, series, stem, suffix]
    sent,       \* files of sent_dir: [ts, key, content]
    failed,     \* files of failed_dir: [ts, key, content]
    stopFlag,   \* listener._stop
    requests,   \* C-STORE requests dispatched so far
    hpc,        \* per handler thread: position inside on_c_store
    hout,       \* per handler thread: out_path (study_dir, series, name)
    hst,        \* per handler thread: local st (0 = None)
    hstatus,    \* per handler thread: status last returned
    hreg,       \* per handler thread: this call has written the registry
    spc,        \* main thread: position in main / scan_and_flush
    cutoff,     \* scan_and_flush: cutoff
    snap,       \* scan_and_flush: list(self.studies.items()) still to visit
    cur,        \* scan_and_flush: (study_uid, st) of the current iteration
    zip_bytes,  \* scan_and_flush: archive contents (relative paths)
    ok,         \* scan_and_flush: ok
    resps,      \* outcomes of the upload_zip calls of the current flush
    sleeps,     \* time.sleep(upload_backoff) calls of the current flush
    raised,     \* an exception is propagating out of the try block
    wake,       \* end of the time.sleep the main thread is in
    accepted,   \* history: files of the requests answered with Success
    lastAccept, \* history: per study key, time of the last Success
    quiet,      \* history: the studies that have been Quiet
    idle_seconds,   \* listener.idle_seconds (--idle-seconds)
    upload_retries, \* listener.upload_retries (--upload-retries)
    san_arg,    \* sanitize_filename called on its own: the argument s
    san_ret,    \* sanitize_filename called on its own: the value returned
    zip_dir,    \* zip_study called on its own: the argument study_dir
    zip_rets,   \* zip_study called on its own: the archives returned so far
    present,    \* run.py: the *.nii.gz files in INPUT_DIR
    processing_files, \* run.py main: processing_files
    lock,       \* run.py main: the thread that holds lock
    rpc,        \* run.py main: position of the main thread
    current_files, \* run.py main: the part of current_files still to visit
    rf,         \* run.py main: f of the current iteration
    futs        \* run.py main: the futures returned by executor.submit

hvars == <<hpc, hout, hst, hstatus, hreg>>
svars == <<spc, cutoff, snap, cur, zip_bytes, ok, resps, sleeps, raised, wake>>
fsvars == <<dirs, files, sent, failed>>
cfgvars == <<idle_seconds, upload_retries>>
sanvars == <<san_arg, san_ret>>
zipvars == <<zip_dir, zip_rets>>
runvars == <<present, processing_files, lock, rpc, current_files, rf, futs>>
\* the variables no step of the listener's threads assigns
fixed == <<cfgvars, sanvars, zipvars, runvars>>
\* the variables of the listener
lvars == <<clock, objs, studies, fsvars, stopFlag, requests, hvars, svars,
           accepted, lastAccept, quiet>>
vars == <<lvars, fixed>>

NoPath == [dir |-> <<>>, series |-> <<>>, stem |-> <<>>, suffix |-> ""]
NoCur == [key |-> <<>>, st |-> 0]

\* the keys the model's datasets map to
Keys == { sanitize_filename(StudyUid(d, t)) : d \in Datasets, t \in 0 .. MaxTime }

\* dict lookup in dict reg: reg.get(k), 0 for None
GetIn(reg, k) ==
    IF \E i \in 1 .. Len(reg) : reg[i].key = k
    THEN reg[CHOOSE i \in 1 .. Len(reg) : reg[i].key = k].st
    ELSE 0

\* self.studies.get(k)
Get(k) == GetIn(studies, k)

\* dict store: self.studies[k] = ref (an existing key keeps its position)
Put(k, ref) ==
    IF \E i \in 1 .. Len(studies) : studies[i].key = k
    THEN [i \in 1 .. Len(studies) |->
            IF studies[i].key = k THEN [key |-> k, st |-> ref] ELSE studies[i]]
    ELSE Append(studies, [key |-> k, st |-> ref])

\* mutant: pop empties the dict
PopClearsDict(k) == <<>>

\* dict removal: self.studies.pop(k, None)
Pop(k) == SelectSeq(studies, LAMBDA e : e.key # k)

\* StudyState(study_uid=..., path=..., last_update_ts=...), locked = False
StudyState(uid, t) ==
    [study_uid |-> uid, path |-> uid, last_update_ts |-> t, locked |-> FALSE]

\* an object no reference leads to has been reclaimed
Reclaimed ==
    [study_uid |-> <<>>, path |-> <<>>, last_update_ts |-> 0, locked |-> FALSE]

\* the references held, after the step, by the dict, the handlers' locals
\* and the scanner's locals
Roots ==
    { studies[i].st : i \in 1 .. Len(studies) }
        \cup { hst[h] : h \in Handlers }
        \cup { snap[i].st : i \in 1 .. Len(snap) }
        \cup {cur.st}

\* reference counting: the objects of o that the step leaves unreferenced
\* are reclaimed
Sweep(o) == [i \in 1 .. Len(o) |-> IF i \in Roots' THEN o[i] ELSE Reclaimed]

\* the directory name ".": pathlib drops it, incoming_dir / "." is
\* incoming_dir
Dot == <<".">>

\* line 258: study_dir = self.incoming_dir / study_uid_s, as the path
\* components below incoming_dir
study_dir(k) == IF k = Dot THEN <<>> ELSE <<k>>

\* the directory of key k is the directory of key d or lies under it
Within(k, d) ==
    /\ Len(study_dir(d)) <= Len(study_dir(k))
    /\ SubSeq(study_dir(k), 1, Len(study_dir(d))) = study_dir(d)

\* the files found under the directory of key d
Under(d) == { f \in files : Within(f.dir, d) }

\* safe_mkdir: the directory of key d and its parents exist afterwards
Mkdir(d) == dirs \cup { k \in {d, Dot} : Within(d, k) }

\* write_instance: out_path and tmp_path of a dataset under a study directory
SeriesOf(ds) ==
    IF ds.series # <<>> THEN sanitize_filename(ds.series)
    ELSE <<"series_unknown">>
StemOf(ds, t) ==
    IF ds.sop # <<>> THEN sanitize_filename(ds.sop)
    ELSE <<"inst_">> \o Digits(t * 1000)
OutPath(d, ds, t) ==
    [dir |-> d, series |-> SeriesOf(ds), stem |-> StemOf(ds, t), suffix |-> ".dcm"]
TmpPath(d, ds, t) ==
    [dir |-> d, series |-> SeriesOf(ds), stem |-> StemOf(ds, t), suffix |-> ".dcm.tmp"]

\* study k has an unlocked entry, no more image will arrive, and the entry
\* has been idle long enough for a scan within the time window to select it
Quiet(k) ==
    /\ requests = MaxImages
    /\ \A h \in Handlers : hpc[h] = "idle"
    /\ Get(k) # 0
    /\ ~objs[Get(k)].locked
    /\ objs[Get(k)].last_update_ts <= MaxTime - idle_seconds

\* the studies that are Quiet
QuietNow == { k \in Keys : Quiet(k) }

\* no value returned (sanitize_filename never returns the empty string)
NoResult == <<>>

\* the listener after __init__, before any request, but for the contents
\* of incoming_dir
InitState ==
    /\ clock = 0
    /\ objs = <<>>
    /\ studies = <<>>
    /\ sent = {}
    /\ failed = {}
    /\ stopFlag = FALSE
    /\ requests = 0
    /\ hpc = [h \in Handlers |-> "idle"]
    /\ hout = [h \in Handlers |-> NoPath]
    /\ hst = [h \in Handlers |-> 0]
    /\ hstatus = [h \in Handlers |-> NoStatus]
    /\ hreg = [h \in Handlers |-> FALSE]
    /\ spc = "loop"
    /\ cutoff = 0
    /\ snap = <<>>
    /\ cur = NoCur
    /\ zip_bytes = {}
    /\ ok = FALSE
    /\ resps = <<>>
    /\ sleeps = <<>>
    /\ raised = FALSE
    /\ wake = 0
    /\ accepted = {}
    /\ lastAccept = [k \in Keys |-> -1]
    /\ quiet = {}

\* the listener after __init__ on an empty incoming_dir (line 228 creates
\* it)
InitListener ==
    /\ InitState
    /\ dirs = {Dot}
    /\ files = {}

\* the listener is constructed with this configuration (lines 215-222)
InitConfig(idle, retries) ==
    /\ idle_seconds = idle
    /\ upload_retries = retries

\* no call of sanitize_filename or zip_study on its own
InitCalls ==
    /\ san_arg = <<>>
    /\ san_ret = NoResult
    /\ zip_dir = <<>>
    /\ zip_rets = <<>>

\* run.py main before its loop (lines 540-544), INPUT_DIR holding the files
\* in
InitDaemon(in) ==
    /\ present = in
    /\ processing_files = {}
    /\ lock = "free"
    /\ rpc = "glob"
    /\ current_files = <<>>
    /\ rf = 0
    /\ futs = <<>>

Init ==
    /\ InitListener
    /\ InitConfig(IdleSeconds, UploadRetries)
    /\ InitCalls
    /\ InitDaemon({})

\* the process is alive: main has neither returned nor died
Running == spc \notin {"exited", "crashed"}

\* --------------------------------------------------------------- on_c_store
\* mutant: the failure status is returned after the registry was updated
StoredStatusFailure == Failure

\* line 275: the status returned once the registry is updated
StoredStatus == Success

\* the call returns status st; its locals die with it
Return(h, st) ==
    /\ hpc' = [hpc EXCEPT ![h] = "idle"]
    /\ hstatus' = [hstatus EXCEPT ![h] = st]
    /\ hout' = [hout EXCEPT ![h] = NoPath]
    /\ hst' = [hst EXCEPT ![h] = 0]

\* lines 247-262 up to write_instance line 116, and 277-279 when one of them
\* raises: a request is dispatched to a free handler thread (the threads are
\* interchangeable: the first free one takes it); the study and series
\* directories are created and the dataset is saved under the temporary name
OnCStoreEnter(h) ==
    /\ UNCHANGED fixed
    /\ Running
    /\ hpc[h] = "idle"
    /\ \A g \in Handlers : g < h => hpc[g] # "idle"
    /\ requests < MaxImages
    /\ requests' = requests + 1
    /\ hreg' = [hreg EXCEPT ![h] = FALSE]
    /\ \E ds \in Datasets, fault \in {"none", "dataset", "save_as"} :
          LET d == sanitize_filename(StudyUid(ds, clock)) IN
          CASE fault = "dataset" ->
                  /\ Return(h, Failure)
                  /\ UNCHANGED <<dirs, files>>
            [] fault = "save_as" ->
                  /\ Return(h, Failure)
                  /\ dirs' = Mkdir(d)
                  /\ UNCHANGED files
            [] OTHER ->
                  /\ hpc' = [hpc EXCEPT ![h] = "replace"]
                  /\ hstatus' = [hstatus EXCEPT ![h] = NoStatus]
                  /\ hout' = [hout EXCEPT ![h] = OutPath(d, ds, clock)]
                  /\ dirs' = Mkdir(d)
                  /\ files' = files \cup {TmpPath(d, ds, clock)}
                  /\ UNCHANGED hst
    /\ UNCHANGED <<clock, objs, studies, sent, failed, stopFlag, svars,
                   accepted, lastAccept>>
    /\ quiet' = quiet \cup QuietNow'

\* write_instance line 117: tmp_path.replace(out_path); raises when the
\* temporary file is gone
OnCStoreReplace(h) ==
    /\ UNCHANGED fixed
    /\ Running
    /\ hpc[h] = "replace"
    /\ LET tmp == [hout[h] EXCEPT !.suffix = ".dcm.tmp"] IN
       IF tmp \in files
       THEN /\ files' = (files \ {tmp}) \cup {hout[h]}
            /\ hpc' = [hpc EXCEPT ![h] = "get"]
            /\ UNCHANGED <<hstatus, hout, hst>>
       ELSE /\ Return(h, Failure)
            /\ UNCHANGED files
    /\ UNCHANGED <<clock, objs, studies, dirs, sent, failed, stopFlag, requests,
                   hreg, svars, accepted, lastAccept>>
    /\ quiet' = quiet \cup QuietNow'

\* line 265: st = self.studies.get(study_uid_s)
OnCStoreGet(h) ==
    /\ UNCHANGED fixed
    /\ Running
    /\ hpc[h] = "get"
    /\ hst' = [hst EXCEPT ![h] = Get(hout[h].dir)]
    /\ hpc' = [hpc EXCEPT ![h] = "update"]
    /\ UNCHANGED <<clock, objs, studies, fsvars, stopFlag, requests,
                   hout, hstatus, hreg, svars, accepted, lastAccept>>
    /\ quiet' = quiet \cup QuietNow'

\* lines 266-275: create the entry or bump its timestamp, return 0x0000
OnCStoreUpdate(h) ==
    /\ UNCHANGED fixed
    /\ Running
    /\ hpc[h] = "update"
    /\ hreg' = [hreg EXCEPT ![h] = TRUE]
    /\ Return(h, StoredStatus)
    /\ accepted' = IF StoredStatus = Success THEN accepted \cup {hout[h]} ELSE accepted
    /\ lastAccept' = [lastAccept EXCEPT ![hout[h].dir] = clock]
    /\ UNCHANGED <<clock, fsvars, stopFlag, requests, svars>>
    /\ IF hst[h] = 0
       THEN /\ studies' = Put(hout[h].dir, Len(objs) + 1)
            /\ objs' = Sweep(Append(objs, StudyState(hout[h].dir, clock)))
       ELSE /\ UNCHANGED studies
            /\ objs' = Sweep([objs EXCEPT ![hst[h]].last_update_ts = clock])
    /\ quiet' = quiet \cup QuietNow'

on_c_store(h) ==
    \/ OnCStoreEnter(h)
    \/ OnCStoreReplace(h)
    \/ OnCStoreGet(h)
    \/ OnCStoreUpdate(h)

\* ----------------------------------------------------------- scan_and_flush
\* line 141: fpath.relative_to(study_dir) for a file under the directory of
\* key d: series/name, preceded by the file's study directory when d is
\* above it
RelTo(f, d) ==
    [top |-> IF f.dir = d THEN <<>> ELSE f.dir,
     series |-> f.series, stem |-> f.stem, suffix |-> f.suffix]

\* zip_study: the archive's entries (paths relative to the study directory)
\* of the files found under the directory, .DS_Store skipped
zip_study(d) ==
    { RelTo(f, d) :
        f \in { g \in Under(d) : ~(g.stem = <<".DS_Store">> /\ g.suffix = "") } }

\* Path.write_bytes: the file named f"{ts}_{study_uid}.zip" of a store
\* directory is created or overwritten
WriteBytes(store, ts, key, content) ==
    { r \in store : ~(r.ts = ts /\ r.key = key) }
        \cup {[ts |-> ts, key |-> key, content |-> content]}

\* time.sleep(n), entered now, returns at this time
SleepUntil(n) == Min(clock + n, MaxTime)

\* mutant: the loop runs one attempt too many
NextAttemptOneMore(done) == IF done <= upload_retries THEN "upload" ELSE "route"

\* mutant: the loop body runs once before the count is tested
NextAttemptAtLeastOnce(done) ==
    IF done = 0 \/ done < upload_retries THEN "upload" ELSE "route"

\* for attempt in range(1, self.upload_retries + 1): next attempt or loop end
NextAttempt(done) == IF done < upload_retries THEN "upload" ELSE "route"

\* mutant: no break on a 2xx answer
AfterResponseNoBreak(r, n) == NextAttempt(n)

\* mutant: a stop signal makes the flush give up
AfterResponseStopAborts(r, n) ==
    IF stopFlag THEN "finally" ELSE IF r = "2xx" THEN "route" ELSE NextAttempt(n)

\* mutant: after a failed attempt the scanner moves on to the next study
AfterResponseNextStudy(r, n) == IF r = "2xx" THEN "route" ELSE "iter"

\* lines 318-327: after the answer r to attempt number n, break on 2xx,
\* otherwise go on with the loop
AfterResponse(r, n) == IF r = "2xx" THEN "route" ELSE NextAttempt(n)

\* mutant: the raw tree is removed on both branches
AfterRouteAlwaysRmtree(isOk) == "rmtree"

\* lines 333-352: after the archive is stored, the raw tree is removed on the
\* ok branch only
AfterRoute(isOk) == IF isOk THEN "rmtree" ELSE "pop"

\* mutant: the finally clause does not clear the flag
UnlockForgotten(o, i) == o

\* line 359: st.locked = False
Unlock(o, i) == [o EXCEPT ![i].locked = FALSE]

\* main lines 461-463 and scan_and_flush line 288: time.sleep(scan_seconds)
\* of the previous cycle returns, the loop test, then cutoff
MainLoop ==
    /\ UNCHANGED fixed
    /\ spc = "loop"
    /\ clock >= wake
    /\ IF stopFlag
       THEN /\ spc' = "exited"
            /\ UNCHANGED cutoff
       ELSE /\ spc' = "snapshot"
            /\ cutoff' = clock - idle_seconds
    /\ UNCHANGED <<clock, objs, studies, fsvars, stopFlag, requests, hvars,
                   snap, cur, zip_bytes, ok, resps, sleeps, raised, wake,
                   accepted, lastAccept>>
    /\ quiet' = quiet \cup QuietNow'

\* line 290: list(self.studies.items())
ScanSnapshot ==
    /\ UNCHANGED fixed
    /\ spc = "snapshot"
    /\ snap' = studies
    /\ spc' = "iter"
    /\ UNCHANGED <<clock, objs, studies, fsvars, stopFlag, requests, hvars,
                   cutoff, cur, zip_bytes, ok, resps, sleeps, raised, wake,
                   accepted, lastAccept>>
    /\ quiet' = quiet \cup QuietNow'

\* mutant: a study idle for exactly idle_seconds is still skipped
StillReceivingAtBoundary(ts, cut) == ts >= cut

\* line 296: st.last_update_ts > cutoff
StillReceiving(ts, cut) == ts > cut

\* lines 290-297: next item of the snapshot, skipped when locked or not idle;
\* main line 463 (time.sleep is entered) when the snapshot is exhausted
ScanIter ==
    /\ UNCHANGED fixed
    /\ spc = "iter"
    /\ IF snap = <<>>
       THEN /\ spc' = "loop"
            /\ wake' = SleepUntil(ScanSeconds)
            /\ UNCHANGED <<snap, cur>>
       ELSE /\ snap' = Tail(snap)
            /\ UNCHANGED wake
            /\ IF \/ objs[Head(snap).st].locked
                  \/ StillReceiving(objs[Head(snap).st].last_update_ts, cutoff)
               THEN UNCHANGED <<spc, cur>>
               ELSE /\ cur' = Head(snap)
                    /\ spc' = "lock"
    /\ UNCHANGED <<clock, studies, fsvars, stopFlag, requests, hvars,
                   cutoff, zip_bytes, ok, resps, sleeps, raised,
                   accepted, lastAccept>>
    /\ objs' = Sweep(objs)
    /\ quiet' = quiet \cup QuietNow'

\* line 300: st.locked = True
ScanLock ==
    /\ UNCHANGED fixed
    /\ spc = "lock"
    /\ objs' = [objs EXCEPT ![cur.st].locked = TRUE]
    /\ spc' = "zip"
    /\ UNCHANGED <<clock, studies, fsvars, stopFlag, requests, hvars,
                   cutoff, snap, cur, zip_bytes, ok, resps, sleeps, raised, wake, accepted, lastAccept>>
    /\ quiet' = quiet \cup QuietNow'

\* lines 303-307: zip_bytes = zip_study(st.path); ok = False; zip_study may
\* raise (unreadable file, memory)
ScanZip ==
    /\ UNCHANGED fixed
    /\ spc = "zip"
    /\ \E fault \in BOOLEAN :
          IF fault
          THEN /\ raised' = TRUE
               /\ spc' = "finally"
               /\ UNCHANGED <<zip_bytes, ok>>
          ELSE /\ zip_bytes' = zip_study(objs[cur.st].path)
               /\ ok' = FALSE
               /\ spc' = NextAttempt(0)
               /\ UNCHANGED raised
    /\ UNCHANGED <<clock, objs, studies, fsvars, stopFlag, requests, hvars,
                   cutoff, snap, cur, resps, sleeps, wake,
                   accepted, lastAccept>>
    /\ quiet' = quiet \cup QuietNow'

\* lines 309-327: one upload_zip call, made once the time.sleep after the
\* previous one has returned; a 2xx answer ends the loop, any other answer
\* or an exception of requests.post is followed by time.sleep
ScanUpload ==
    /\ UNCHANGED fixed
    /\ spc = "upload"
    /\ clock >= wake
    /\ \E r \in {"2xx", "non2xx", "exception"} :
          /\ resps' = Append(resps, r)
          /\ spc' = AfterResponse(r, Len(resps) + 1)
          /\ IF r = "2xx"
             THEN /\ ok' = TRUE
                  /\ UNCHANGED <<sleeps, wake>>
             ELSE /\ sleeps' = Append(sleeps, UploadBackoff)
                  /\ wake' = SleepUntil(UploadBackoff)
                  /\ UNCHANGED ok
    /\ UNCHANGED <<clock, objs, studies, fsvars, stopFlag, requests, hvars,
                   cutoff, snap, cur, zip_bytes, raised,
                   accepted, lastAccept>>
    /\ quiet' = quiet \cup QuietNow'

\* lines 329-336 and 347-349: the archive is written to sent_dir when ok,
\* to failed_dir otherwise, once the last time.sleep has returned;
\* write_bytes may raise (disk full, permissions)
ScanRoute ==
    /\ UNCHANGED fixed
    /\ spc = "route"
    /\ clock >= wake
    /\ \E fault \in BOOLEAN :
          IF fault
          THEN /\ raised' = TRUE
               /\ spc' = "finally"
               /\ UNCHANGED <<sent, failed>>
          ELSE /\ IF ok
                  THEN /\ sent' = WriteBytes(sent, clock, cur.key, zip_bytes)
                       /\ UNCHANGED failed
                  ELSE /\ failed' = WriteBytes(failed, clock, cur.key, zip_bytes)
                       /\ UNCHANGED sent
               /\ spc' = AfterRoute(ok)
               /\ UNCHANGED raised
    /\ UNCHANGED <<clock, objs, studies, dirs, files, stopFlag, requests, hvars,
                   cutoff, snap, cur, zip_bytes, ok, resps, sleeps, wake,
                   accepted, lastAccept>>
    /\ quiet' = quiet \cup QuietNow'

\* line 339: shutil.rmtree(st.path, ignore_errors=True)
ScanRmtree ==
    /\ UNCHANGED fixed
    /\ spc = "rmtree"
    /\ dirs' = { k \in dirs : ~Within(k, objs[cur.st].path) }
    /\ files' = files \ Under(objs[cur.st].path)
    /\ spc' = "pop"
    /\ UNCHANGED <<clock, objs, studies, sent, failed, stopFlag, requests, hvars,
                   cutoff, snap, cur, zip_bytes, ok, resps, sleeps, raised, wake, accepted, lastAccept>>
    /\ quiet' = quiet \cup QuietNow'

\* lines 342 and 352: self.studies.pop(study_uid, None)
ScanPop ==
    /\ UNCHANGED fixed
    /\ spc = "pop"
    /\ studies' = Pop(cur.key)
    /\ spc' = "finally"
    /\ UNCHANGED <<clock, objs, fsvars, stopFlag, requests, hvars,
                   cutoff, snap, cur, zip_bytes, ok, resps, sleeps, raised, wake, accepted, lastAccept>>
    /\ quiet' = quiet \cup QuietNow'

\* lines 358-359: finally: st.locked = False; then the next iteration, or the
\* exception leaves scan_and_flush and main's loop (lines 459-466)
ScanFinally ==
    /\ UNCHANGED fixed
    /\ spc = "finally"
    /\ spc' = IF raised THEN "crashed" ELSE "iter"
    /\ cur' = NoCur
    /\ zip_bytes' = {}
    /\ ok' = FALSE
    /\ resps' = <<>>
    /\ sleeps' = <<>>
    /\ raised' = FALSE
    /\ UNCHANGED <<clock, studies, fsvars, stopFlag, requests, hvars,
                   cutoff, snap, wake, accepted, lastAccept>>
    /\ objs' = Sweep(Unlock(objs, cur.st))
    /\ quiet' = quiet \cup QuietNow'

scan_and_flush ==
    \/ ScanSnapshot
    \/ ScanIter
    \/ ScanLock
    \/ ScanZip
    \/ ScanUpload
    \/ ScanRoute
    \/ ScanRmtree
    \/ ScanPop
    \/ ScanFinally

\* stop(), run by the signal handler of SIGINT / SIGTERM
stop ==
    /\ UNCHANGED fixed
    /\ Running
    /\ ~stopFlag
    /\ stopFlag' = TRUE
    /\ UNCHANGED <<clock, objs, studies, fsvars, requests, hvars, svars,
                   accepted, lastAccept>>
    /\ quiet' = quiet \cup QuietNow'

\* a second passes
Tick ==
    /\ UNCHANGED fixed
    /\ Running
    /\ clock < MaxTime
    /\ clock' = clock + 1
    /\ UNCHANGED <<objs, studies, fsvars, stopFlag, requests, hvars, svars,
                   accepted, lastAccept>>
    /\ quiet' = quiet \cup QuietNow'

Next ==
    \/ \E h \in Handlers : on_c_store(h)
    \/ MainLoop
    \/ scan_and_flush
    \/ stop
    \/ Tick

Spec == Init /\ [][Next]_vars

\* the main thread keeps running and time passes: the main thread takes its
\* next step (main's loop, scan_and_flush; upload_zip returns within its
\* timeout) and the clock advances.  Nothing is assumed of the handler
\* threads, of the arrival of requests or of the stop signal.
FairSpec ==
    /\ Spec
    /\ WF_vars(MainLoop \/ scan_and_flush)
    /\ WF_vars(Tick)

\* ------------------------------------------- other command-line values
\* --idle-seconds and --upload-retries as given on the command line: a short
\* idle time; one attempt, none, and a negative count
ShortIdle == 1
FewRetries == {1, 0, 0 - 1}

CfgInit ==
    /\ InitListener
    /\ \E r \in FewRetries : InitConfig(ShortIdle, r)
    /\ InitCalls
    /\ InitDaemon({})

CfgSpec == CfgInit /\ [][Next]_vars

\* ------------------------------------------- sanitize_filename on its own
\* characters of the arguments: an ASCII letter and digit, the three kept
\* punctuation characters' representatives, a path separator, a blank, and
\* characters outside ASCII
InputChars == {"a", "1", "-", ".", "/", " ", "U+00E9", "U+2192"}

\* the strings over InputChars of length n
RECURSIVE StringsOfLen(_)
StringsOfLen(n) ==
    IF n = 0 THEN {<<>>}
    ELSE { Append(t, c) : t \in StringsOfLen(n - 1), c \in InputChars }

\* t repeated n times
Repeat(t, n) == [i \in 1 .. Len(t) * n |-> t[((i - 1) % Len(t)) + 1]]

ShortInputs == UNION { StringsOfLen(n) : n \in 0 .. MaxLen }

\* the arguments: every short string, and every short string repeated often
\* enough to pass the length cap
Inputs == ShortInputs \cup { Repeat(t, NameCap + 1) : t \in ShortInputs }

SanInit ==
    /\ InitListener
    /\ InitConfig(IdleSeconds, UploadRetries)
    /\ san_arg \in Inputs
    /\ san_ret = NoResult
    /\ zip_dir = <<>>
    /\ zip_rets = <<>>
    /\ InitDaemon({})

\* a call sanitize_filename(s); it may be repeated on the same argument
SanitizeCall ==
    /\ san_ret' = sanitize_filename(san_arg)
    /\ UNCHANGED <<san_arg, lvars, cfgvars, zipvars, runvars>>

SanNext == SanitizeCall

SanSpec == SanInit /\ [][SanNext]_vars

\* ------------------------------------------------------ zip_study on its own
\* the study directory archived and another one beside it
ZipDir == <<"a">>
OtherDir == <<"c">>

DsStore(d, series) ==
    [dir |-> d, series |-> series, stem |-> <<".DS_Store">>, suffix |-> ""]

\* files a study directory may hold when zip_study is called: instance
\* files of two series, a temporary file, .DS_Store files
TreeFiles ==
    { [dir |-> ZipDir, series |-> <<"s">>, stem |-> <<"1">>, suffix |-> ".dcm"],
      [dir |-> ZipDir, series |-> <<"s">>, stem |-> <<"2">>, suffix |-> ".dcm"],
      [dir |-> ZipDir, series |-> <<"t">>, stem |-> <<"1">>, suffix |-> ".dcm"],
      [dir |-> ZipDir, series |-> <<"s">>, stem |-> <<"2">>, suffix |-> ".dcm.tmp"],
      DsStore(ZipDir, <<>>),
      DsStore(ZipDir, <<"s">>) }

\* a file outside the study directory
OtherFile ==
    [dir |-> OtherDir, series |-> <<"s">>, stem |-> <<"1">>, suffix |-> ".dcm"]

\* the sequences that list each element of S once
RECURSIVE Orderings(_)
Orderings(S) ==
    IF S = {} THEN {<<>>}
    ELSE UNION { { <<x>> \o t : t \in Orderings(S \ {x}) } : x \in S }

\* lines 134-135: the orders in which os.walk may yield the files under
\* directory d: the directory's own files first, then one subdirectory after
\* the other; the order of the subdirectories and of the files of one
\* directory is the order of os.scandir, which is arbitrary
WalkOrders(d) ==
    LET under == Under(d) IN
    { o \in Orderings(under) :
        \A i, j \in 1 .. Len(o) :
            i < j =>
              /\ (o[j].dir = d /\ o[j].series = <<>>)
                    => (o[i].dir = d /\ o[i].series = <<>>)
              /\ (o[i].dir = o[j].dir /\ o[i].series = o[j].series) =>
                    \A m \in i .. j :
                        o[m].dir = o[i].dir /\ o[m].series = o[i].series }

\* lines 134-142: the archive written when os.walk yields the files in
\* order o: .DS_Store skipped, each other file under its relative path
ZipEntries(o) ==
    LET kept == SelectSeq(o, LAMBDA f : ~(f.stem = <<".DS_Store">> /\ f.suffix = ""))
    IN  [i \in 1 .. Len(kept) |-> RelTo(kept[i], zip_dir)]

ZipInit ==
    /\ InitState
    /\ InitConfig(IdleSeconds, UploadRetries)
    /\ dirs = {Dot, ZipDir, OtherDir}
    /\ \E S \in SUBSET TreeFiles : files = S \cup {OtherFile}
    /\ san_arg = <<>>
    /\ san_ret = NoResult
    /\ zip_dir = ZipDir
    /\ zip_rets = <<>>
    /\ InitDaemon({})

\* a call zip_study(study_dir) on the unchanged directory
ZipCall ==
    /\ Len(zip_rets) < 2
    /\ \E o \in WalkOrders(zip_dir) : zip_rets' = Append(zip_rets, ZipEntries(o))
    /\ UNCHANGED <<zip_dir, lvars, cfgvars, sanvars, runvars>>

ZipNext == ZipCall

ZipSpec == ZipInit /\ [][ZipNext]_vars

\* ------------------------------------------------- run.py: processing daemon
\* config.MAX_PARALLEL_CASES (scaled)
MAX_PARALLEL_CASES == 2

\* the *.nii.gz files that may appear in INPUT_DIR, named by their rank in
\* sorted order
InputFiles == 1 .. 3

\* number of executor.submit calls after which main starts no new pass
MaxSubmits == 3

\* sorted(list(INPUT_DIR.glob("*.nii.gz")))
RECURSIVE Sorted(_)
Sorted(S) ==
    IF S = {} THEN <<>>
    ELSE LET m == CHOOSE x \in S : \A y \in S : x <= y
         IN  <<m>> \o Sorted(S \ {m})

\* mutant: the capacity test lets one more case in
AtCapacityOffByOne(n) == n > MAX_PARALLEL_CASES

\* line 565: len(processing_files) >= max_cases
AtCapacity(n) == n >= MAX_PARALLEL_CASES

\* line 569: f in processing_files
BeingProcessed(f) == f \in processing_files

\* the future of a case: its file, its state (pending, running, finished:
\* process_case has returned or raised; callback: on_complete waits for the
\* lock; locked: on_complete holds the lock; done: on_complete has returned),
\* whether the done-callback is registered, and the thread that runs the
\* callback
Future(f) == [file |-> f, st |-> "pending", cb |-> FALSE, by |-> "nobody"]

\* a file is written to INPUT_DIR (by the preparation step)
Arrive ==
    /\ \E f \in InputFiles \ present : present' = present \cup {f}
    /\ UNCHANGED <<processing_files, lock, rpc, current_files, rf, futs>>
    /\ UNCHANGED <<lvars, cfgvars, sanvars, zipvars>>

\* line 559: current_files = sorted(list(INPUT_DIR.glob("*.nii.gz")))
RunGlob ==
    /\ rpc = "glob"
    /\ Len(futs) < MaxSubmits
    /\ current_files' = Sorted(present)
    /\ rpc' = "for"
    /\ UNCHANGED <<present, processing_files, lock, rf, futs>>
    /\ UNCHANGED <<lvars, cfgvars, sanvars, zipvars>>

\* lines 561-562: for f in current_files: with lock (the lock is acquired
\* when it is free); line 578 when the list is exhausted
RunFor ==
    /\ rpc = "for"
    /\ IF current_files = <<>>
       THEN /\ rpc' = "sleep"
            /\ UNCHANGED <<lock, rf, current_files>>
       ELSE /\ lock = "free"
            /\ lock' = "main"
            /\ rf' = Head(current_files)
            /\ current_files' = Tail(current_files)
            /\ rpc' = "check"
    /\ UNCHANGED <<present, processing_files, futs>>
    /\ UNCHANGED <<lvars, cfgvars, sanvars, zipvars>>

\* lines 564-574, the lock held: break at capacity, continue on a file being
\* processed, otherwise processing_files.add(f)
RunCheck ==
    /\ rpc = "check"
    /\ IF AtCapacity(Cardinality(processing_files))
       THEN /\ rpc' = "sleep"
            /\ lock' = "free"
            /\ UNCHANGED processing_files
       ELSE IF BeingProcessed(rf)
       THEN /\ rpc' = "for"
            /\ lock' = "free"
            /\ UNCHANGED processing_files
       ELSE /\ processing_files' = processing_files \cup {rf}
            /\ rpc' = "submit"
            /\ UNCHANGED lock
    /\ UNCHANGED <<present, current_files, rf, futs>>
    /\ UNCHANGED <<lvars, cfgvars, sanvars, zipvars>>

\* line 575: future = executor.submit(process_case, f); when submit raises
\* (no thread can be started) the exception leaves the with block and is
\* caught at line 580
RunSubmit ==
    /\ rpc = "submit"
    /\ \E fault \in BOOLEAN :
          IF fault
          THEN /\ rpc' = "sleep"
               /\ lock' = "free"
               /\ UNCHANGED futs
          ELSE /\ futs' = Append(futs, Future(rf))
               /\ rpc' = "register"
               /\ UNCHANGED lock
    /\ UNCHANGED <<present, processing_files, current_files, rf>>
    /\ UNCHANGED <<lvars, cfgvars, sanvars, zipvars>>

\* line 576: future.add_done_callback(...), the lock still held: the callback
\* is registered, or, when the future has finished already, it is called at
\* once by the calling thread
RunRegister ==
    /\ rpc = "register"
    /\ LET i == Len(futs) IN
       IF futs[i].st = "finished"
       THEN /\ futs' = [futs EXCEPT ![i].st = "callback", ![i].by = "main"]
            /\ rpc' = "oncomplete"
            /\ UNCHANGED lock
       ELSE /\ futs' = [futs EXCEPT ![i].cb = TRUE]
            /\ rpc' = "for"
            /\ lock' = "free"
    /\ UNCHANGED <<present, processing_files, current_files, rf>>
    /\ UNCHANGED <<lvars, cfgvars, sanvars, zipvars>>

\* lines 578 and 582: time.sleep(2) returns
RunSleep ==
    /\ rpc = "sleep"
    /\ rpc' = "glob"
    /\ UNCHANGED <<present, processing_files, lock, current_files, rf, futs>>
    /\ UNCHANGED <<lvars, cfgvars, sanvars, zipvars>>

\* a worker thread of the executor takes the case from the queue
WorkerStart(i) ==
    /\ futs[i].st = "pending"
    /\ futs' = [futs EXCEPT ![i].st = "running"]
    /\ UNCHANGED <<present, processing_files, lock, rpc, current_files, rf>>
    /\ UNCHANGED <<lvars, cfgvars, sanvars, zipvars>>

\* process_case returns or raises: it has moved the input file away (lines
\* 414, 505) or left it; the future is finished and the worker calls the
\* callback if it is registered
WorkerFinish(i) ==
    /\ futs[i].st = "running"
    /\ \E moved \in BOOLEAN :
          present' = IF moved THEN present \ {futs[i].file} ELSE present
    /\ futs' = IF futs[i].cb
               THEN [futs EXCEPT ![i].st = "callback", ![i].by = "worker"]
               ELSE [futs EXCEPT ![i].st = "finished"]
    /\ UNCHANGED <<processing_files, lock, rpc, current_files, rf>>
    /\ UNCHANGED <<lvars, cfgvars, sanvars, zipvars>>

\* on_complete line 548: with lock (acquired when it is free)
OnCompleteAcquire(i) ==
    /\ futs[i].st = "callback"
    /\ lock = "free"
    /\ lock' = futs[i].by
    /\ futs' = [futs EXCEPT ![i].st = "locked"]
    /\ UNCHANGED <<present, processing_files, rpc, current_files, rf>>
    /\ UNCHANGED <<lvars, cfgvars, sanvars, zipvars>>

\* on_complete lines 549-554: discard, release, fut.result()
OnCompleteDiscard(i) ==
    /\ futs[i].st = "locked"
    /\ processing_files' = processing_files \ {futs[i].file}
    /\ lock' = "free"
    /\ futs' = [futs EXCEPT ![i].st = "done"]
    /\ rpc' = IF futs[i].by = "main" THEN "for" ELSE rpc
    /\ UNCHANGED <<present, current_files, rf>>
    /\ UNCHANGED <<lvars, cfgvars, sanvars, zipvars>>

on_complete(i) == OnCompleteAcquire(i) \/ OnCompleteDiscard(i)

RunInit ==
    /\ InitListener
    /\ InitConfig(IdleSeconds, UploadRetries)
    /\ InitCalls
    /\ \E in \in SUBSET InputFiles : InitDaemon(in)

RunNext ==
    \/ Arrive
    \/ RunGlob
    \/ RunFor
    \/ RunCheck
    \/ RunSubmit
    \/ RunRegister
    \/ RunSleep
    \/ \E i \in 1 .. Len(futs) : WorkerStart(i)
    \/ \E i \in 1 .. Len(futs) : WorkerFinish(i)
    \/ \E i \in 1 .. Len(futs) : on_complete(i)

RunSpec == RunInit /\ [][RunNext]_vars

\* ------------------------------------------------------------------ claims
\* the scanner is inside the try block of scan_and_flush (lines 301-359)
FlushPcs == {"zip", "upload", "route", "rmtree", "pop", "finally"}
InFlush == spc \in FlushPcs

\* the entry of an archive that a file of a study directory becomes
Rel(f) == RelTo(f, f.dir)

\* file f is contained in an archive of its study in sent_dir or failed_dir
Archived(f) ==
    \E r \in sent \cup failed : r.key = f.dir /\ Rel(f) \in r.content

\* the complete instance files of study directory d
Instances(d) == { f \in files : f.dir = d /\ f.suffix = ".dcm" }

\* C1 (as stated): every image answered with Success ends up in an archive in
\* sent or failed while the scanner keeps running.  Once the registry is
\* empty, no handler is active and the scanner is between flushes, nothing
\* more will be archived, so every accepted image must be archived by then.
C1_ReliableDelivery ==
    ( /\ Running
      /\ ~stopFlag
      /\ ~InFlush
      /\ studies = <<>>
      /\ \A h \in Handlers : hpc[h] = "idle" )
    => \A f \in accepted : Archived(f)

\* C2: at every moment at most one flush is in progress for a study: every
\* locked StudyState is the one the scanner's current flush holds, so no
\* study has two locked states.
C2_AtMostOneFlush ==
    /\ \A i \in 1 .. Len(objs) : objs[i].locked => (InFlush /\ cur.st = i)
    /\ \A k \in Keys :
          Cardinality({ i \in 1 .. Len(objs) :
                          objs[i].locked /\ objs[i].study_uid = k }) <= 1

\* a flush of a study is in progress while a handler call for the same study
\* is about to update the registry
C2_Witness ==
    /\ spc = "upload"
    /\ objs[cur.st].locked
    /\ \E h \in Handlers : hpc[h] = "update" /\ hout[h].dir = cur.key

\* C3 (as stated): when the raw tree of a delivered study is deleted, every
\* instance file in it is an entry of the archive written to sent.
C3_DeletedOnlyIfArchived ==
    [][ (spc = "rmtree" /\ spc' = "pop")
          => \A f \in Instances(objs[cur.st].path) : Rel(f) \in zip_bytes ]_vars

\* C4 (as stated): an accepted image sets the lastActivity of its study's
\* registry entry to the acceptance time, and a study is not locked for
\* flushing less than IdleSeconds after an image for it was accepted.
C4_IdleTimerReset ==
    [][ /\ \A h \in Handlers :
              (hpc[h] = "update" /\ hpc'[h] = "idle")
                => /\ GetIn(studies', hout[h].dir) # 0
                   /\ objs'[GetIn(studies', hout[h].dir)].last_update_ts = clock
        /\ (spc = "lock" /\ spc' = "zip")
              => clock - lastAccept[cur.key] >= IdleSeconds ]_vars

\* the answers so far are failures, except possibly the last one
FailuresThenAnswer ==
    \A i \in 1 .. Len(resps) - 1 : resps[i] # "2xx"

\* the current flush has stored its archive (routing did not raise)
Stored == spc \in {"rmtree", "pop"} \/ (spc = "finally" /\ ~raised)

\* C5: against an endpoint that fails k < UploadRetries times and then
\* answers 2xx, the flush makes exactly k + 1 attempts (the 2xx answer is the
\* last one of at most UploadRetries), ends with ok, and stores its archive
\* in sent; a flush that got a 2xx answer writes nothing to failed.
C5_RetryThenSuccess ==
    /\ [](InFlush =>
            /\ Len(resps) <= UploadRetries
            /\ FailuresThenAnswer
            /\ ok <=> (resps # <<>> /\ resps[Len(resps)] = "2xx")
            /\ (ok /\ Stored) =>
                  \E r \in sent : r.key = cur.key /\ r.content = zip_bytes)
    /\ [][ (resps # <<>> /\ resps[Len(resps)] = "2xx")
              => (resps' \in {resps, <<>>} /\ failed' = failed) ]_vars

\* one failure, then 2xx: two attempts, archive in sent
C5_Witness ==
    /\ spc = "finally"
    /\ ~raised
    /\ ok
    /\ Len(resps) = 2
    /\ resps[1] # "2xx"
    /\ zip_bytes # {}
    /\ \E r \in sent : r.key = cur.key /\ r.content = zip_bytes

\* the scanner takes a step of scan_and_flush
ScannerStep == svars' # svars

\* C6: against an endpoint that always fails the flush makes exactly
\* UploadRetries attempts, then stores the archive it tried to upload in
\* failed, writes nothing to sent, leaves the raw directory as it is and
\* removes the study from the registry.
C6_RetryExhaustion ==
    /\ []((InFlush /\ ~ok) =>
            /\ Len(resps) <= UploadRetries
            /\ (spc = "route" \/ Stored) =>
                  /\ Len(resps) = UploadRetries
                  /\ \A i \in 1 .. Len(resps) : resps[i] # "2xx"
            /\ Stored =>
                  \E r \in failed : r.key = cur.key /\ r.content = zip_bytes)
    /\ [][ /\ sent' # sent => ok
           /\ (spc \in {"upload", "route", "pop"}) => zip_bytes' = zip_bytes
           /\ (ScannerStep /\ ~ok) => (dirs' = dirs /\ files' = files)
           /\ (spc = "pop" /\ spc' = "finally") => GetIn(studies', cur.key) = 0
         ]_vars

\* every attempt failed: archive in failed, raw files still there, entry gone
C6_Witness ==
    /\ spc = "finally"
    /\ ~raised
    /\ ~ok
    /\ Len(resps) = UploadRetries
    /\ zip_bytes # {}
    /\ \E r \in failed : r.key = cur.key /\ r.content = zip_bytes
    /\ \A r \in sent : r.key # cur.key
    /\ Instances(cur.key) # {}
    /\ Get(cur.key) = 0

\* C7 (as stated): a flush whose UploadRetries attempts all fail sleeps
\* UploadRetries - 1 times, each time for UploadBackoff seconds.
C7_BackoffCount ==
    (InFlush /\ ~ok /\ (spc = "route" \/ Stored))
        => /\ Len(sleeps) = UploadRetries - 1
           /\ \A i \in 1 .. Len(sleeps) : sleeps[i] = UploadBackoff

\* study directory d, or a complete instance file in it, disappears
Deleted(d) ==
    \/ d \in dirs /\ d \notin dirs'
    \/ \E f \in Instances(d) : f \notin files'

\* C8: a study directory and its instance files are deleted only by the flush
\* of that study, after a 2xx answer and after the archive is in sent.
C8_DeleteOnlyOnSuccess ==
    [][ \A d \in Keys :
          Deleted(d) =>
              /\ spc = "rmtree"
              /\ cur.key = d
              /\ ok
              /\ resps[Len(resps)] = "2xx"
              /\ \E r \in sent : r.key = d /\ r.content = zip_bytes ]_vars

\* a flush that got 2xx but raised while storing the archive keeps the raw
\* files; so does a stop signal
C8_Witness ==
    /\ spc = "finally"
    /\ raised
    /\ ok
    /\ stopFlag
    /\ Instances(cur.key) # {}

\* C9 (as stated): an exception of zip_study or of the write to sent/failed
\* does not leave scan_and_flush: the scanning loop never dies of it.
C9_FaultContained == spc # "crashed"

\* C10: on_c_store always returns 0x0000 or 0xA700; a call that returns
\* 0xA700 has not written the registry, and its failing step leaves the
\* registry, the StudyState objects and the directories of all studies but
\* one (its own) unchanged; of another directory it creates at most the
\* parent of its own, which mkdir(parents=True) creates when it is missing.
C10_HandlerIsolatesFaults ==
    /\ [](\A h \in Handlers :
            /\ hstatus[h] \in {NoStatus, Success, Failure}
            /\ (hpc[h] = "idle" /\ requests > 0 /\ h = 1) => hstatus[h] # NoStatus
            /\ (hpc[h] # "idle" /\ Running) => ENABLED on_c_store(h)
            /\ (hpc[h] = "idle" /\ hstatus[h] = Failure) => ~hreg[h])
    /\ [][ \A h \in Handlers :
             ( /\ hpc'[h] = "idle"
               /\ hstatus'[h] = Failure
               /\ (hpc[h] # "idle" \/ requests' # requests) )
             => /\ studies' = studies
                /\ objs' = objs
                /\ \E own \in Keys : \A d \in Keys \ {own} :
                      /\ d \in dirs => d \in dirs'
                      /\ (d \in dirs' /\ d \notin dirs) => Within(own, d)
                      /\ { f \in files' : f.dir = d } = { f \in files : f.dir = d }
         ]_vars

\* a call fails while another study has a registry entry and files
C10_Witness ==
    \E h \in Handlers :
        /\ hpc[h] = "idle"
        /\ hstatus[h] = Failure
        /\ studies # <<>>
        /\ files # {}

\* C11 (as stated): handler calls are never made to wait (a call under way
\* can always take its next step, whatever the scanner is doing), and the
\* registry loses no entry: every study with an accepted image that no
\* archive in sent or failed contains has a registry entry.
C11_RegistryConsistent ==
    /\ \A h \in Handlers : (hpc[h] # "idle" /\ Running) => ENABLED on_c_store(h)
    /\ \A f \in accepted : ~Archived(f) => Get(f.dir) # 0

\* C12 (as stated): while a StudyState is locked for flushing, no image is
\* merged into the flush: its last_update_ts is not bumped and no file
\* appears in its directory.
C12_LateImageDetected ==
    [][ \A i \in 1 .. Len(objs) :
          (objs[i].locked /\ objs'[i].locked)
            => /\ objs'[i].last_update_ts = objs[i].last_update_ts
               /\ { f \in files' : f.dir = objs[i].path }
                     \subseteq { f \in files : f.dir = objs[i].path } ]_vars

\* C13 (as stated): a study whose registry entry is locked keeps a locked
\* entry for as long as it has an entry.
C13_NoReturnToReceiving ==
    [][ \A k \in Keys :
          ( /\ Get(k) # 0
            /\ objs[Get(k)].locked
            /\ GetIn(studies', k) # 0 )
          => objs'[GetIn(studies', k)].locked ]_vars

\* C14 (as stated): when the flush of a study ends, on any exit path, the
\* entry that was flushed is no longer in the registry.
C14_EntryRemovedAfterFlush ==
    [][ (spc = "finally" /\ spc' # "finally")
          => GetIn(studies', cur.key) # cur.st ]_vars

\* key k is a synthesized identifier: study_unknown_ followed by digits
Synthetic(k) ==
    /\ Len(k) > Len(StudyUnknown)
    /\ SubSeq(k, 1, Len(StudyUnknown)) = StudyUnknown

\* C15: a dataset whose StudyInstanceUID is absent, empty or blank gets the
\* identifier study_unknown_<milliseconds>; the call that handles it stores
\* the image under that identifier's directory, creates an unlocked registry
\* entry for it (or bumps the one it found) and returns 0x0000.
C15_MissingIdTolerated ==
    /\ [](\A ds \in Datasets, t \in 0 .. MaxTime :
            Strip(ds.study) = <<>>
              => /\ StudyUid(ds, t) = StudyUnknown \o Digits(t * 1000)
                 /\ sanitize_filename(StudyUid(ds, t)) = StudyUid(ds, t))
    /\ [][ \A h \in Handlers :
             /\ (hpc[h] = "idle" /\ hpc'[h] = "replace" /\ Synthetic(hout'[h].dir))
                  => /\ hout'[h].dir = StudyUnknown \o Digits(clock * 1000)
                     /\ hout'[h].dir \in dirs'
                     /\ [hout'[h] EXCEPT !.suffix = ".dcm.tmp"] \in files'
             /\ (hpc[h] = "replace" /\ hpc'[h] = "get" /\ Synthetic(hout[h].dir))
                  => hout[h] \in files'
             /\ (hpc[h] = "update" /\ hpc'[h] = "idle" /\ Synthetic(hout[h].dir))
                  => /\ hstatus'[h] = Success
                     /\ hout[h] \in accepted'
                     /\ hst[h] = 0 =>
                           /\ GetIn(studies', hout[h].dir) # 0
                           /\ objs'[GetIn(studies', hout[h].dir)] =
                                 StudyState(hout[h].dir, clock)
                     /\ (hst[h] # 0 /\ GetIn(studies', hout[h].dir) = hst[h])
                           => objs'[hst[h]].last_update_ts = clock
         ]_vars

\* an image without study identifier was answered 0x0000; its file is on disk
\* under the synthesized directory and the registry tracks it, unlocked
C15_Witness ==
    \E h \in Handlers, f \in accepted \cap files :
        /\ hpc[h] = "idle"
        /\ hstatus[h] = Success
        /\ Synthetic(f.dir)
        /\ Get(f.dir) # 0
        /\ ~objs[Get(f.dir)].locked

\* the characters sanitize_filename may return: alphanumeric ones (in the
\* sense of str.isalnum, which covers letters and digits outside ASCII) and
\* '-', '_', '.'
AllowedChars == Letters \cup DigitChars \cup NonAsciiAlnum \cup {"-", "_", "."}

\* C16: for every argument sanitize_filename returns a string of 1 to 200
\* allowed characters, it returns 'unknown' when the argument has no allowed
\* character, and a repeated call on the same argument returns the same.
C16_SanitizeTotal ==
    /\ [](san_ret # NoResult =>
            /\ Len(san_ret) >= 1
            /\ Len(san_ret) <= 200
            /\ \A i \in 1 .. Len(san_ret) : san_ret[i] \in AllowedChars
            /\ (\A i \in 1 .. Len(san_arg) : san_arg[i] \notin AllowedChars)
                  => san_ret = <<"u", "n", "k", "n", "o", "w", "n">>
            /\ (Len(san_arg) <= 200
                  /\ \A i \in 1 .. Len(san_arg) : san_arg[i] \in AllowedChars)
                  => (san_arg = <<>> \/ san_ret = san_arg))
    /\ [][ san_ret # NoResult => san_ret' = san_ret ]_vars

\* a path-traversal argument longer than the cap was cut to 200 characters
C16_Witness ==
    /\ Len(san_arg) > 200
    /\ \E i \in 1 .. Len(san_arg) - 2 :
          SubSeq(san_arg, i, i + 2) = <<".", ".", "/">>
    /\ Len(san_ret) = 200

\* the directory name the images of dataset ds belong under
DirOf(ds) == sanitize_filename(Strip(ds.study))

\* C17 (as stated): the images of a dataset with a study identifier are
\* stored under the one directory named after the sanitized identifier,
\* whatever the time; the registry has at most one entry per study, keyed by
\* that directory; the path of a StudyState never changes; and an image that
\* is accepted is tracked: the registry then has the entry of its study.
C17_OneDirectoryOneEntry ==
    /\ [](/\ \A ds \in Datasets, t \in 0 .. MaxTime :
                Strip(ds.study) # <<>>
                  => sanitize_filename(StudyUid(ds, t)) = DirOf(ds)
          /\ \A f \in files \cup accepted, ds \in Datasets :
                (Strip(ds.study) # <<>> /\ f.stem = sanitize_filename(ds.sop))
                  => f.dir = DirOf(ds)
          /\ \A i, j \in 1 .. Len(studies) :
                /\ studies[i].key = studies[j].key => i = j
                /\ objs[studies[i].st].path = studies[i].key
                /\ objs[studies[i].st].study_uid = studies[i].key)
    /\ [][ /\ \A i \in 1 .. Len(objs) :
                (objs[i] # Reclaimed /\ objs'[i] # Reclaimed)
                  => objs'[i].path = objs[i].path
           /\ \A h \in Handlers :
                ( /\ hpc[h] = "update"
                  /\ hpc'[h] = "idle"
                  /\ hstatus'[h] = Success
                  /\ ~Synthetic(hout[h].dir) )
                => /\ GetIn(studies', hout[h].dir) # 0
                   /\ objs'[GetIn(studies', hout[h].dir)].path = hout[h].dir
         ]_vars

\* the archive of the current flush is in the store its outcome selects
ArchiveStored ==
    \E r \in (IF ok THEN sent ELSE failed) :
        r.key = cur.key /\ r.content = zip_bytes

\* C18: stop() only sets the flag; main leaves its loop only at the loop
\* test, with the flag set; a flush goes on with the flag set and, unless it
\* raises, ends with its archive stored and its entry removed; once the flag
\* is set the main loop eventually ends.
C18_CooperativeShutdown ==
    /\ [][ /\ (spc' = "exited" /\ spc # "exited") => (spc = "loop" /\ stopFlag)
           /\ stopFlag' # stopFlag =>
                 /\ stopFlag'
                 /\ svars' = svars
                 /\ hvars' = hvars
                 /\ fsvars' = fsvars
                 /\ studies' = studies
                 /\ objs' = objs
         ]_vars
    /\ []((stopFlag /\ InFlush) =>
            /\ ENABLED scan_and_flush \/ clock < wake
            /\ (spc = "finally" /\ ~raised) =>
                  /\ ArchiveStored
                  /\ Get(cur.key) # cur.st)
    /\ (stopFlag ~> ~Running)

\* the flag was set while a scan cycle was under way, and the flush of that
\* cycle has stored its archive in sent and removed the entry
C18_Witness ==
    /\ stopFlag
    /\ spc = "finally"
    /\ ~raised
    /\ ok
    /\ zip_bytes # {}
    /\ ArchiveStored
    /\ Get(cur.key) = 0

\* study k has left the registry with its archive in sent and no raw tree, or
\* in failed with the raw tree kept
Flushed(k) ==
    /\ Get(k) = 0
    /\ \/ (\E r \in sent : r.key = k) /\ k \notin dirs
       \/ (\E r \in failed : r.key = k) /\ k \in dirs

\* C19: with the main thread running, no stop signal and no exception in the
\* flush, every study that has an unlocked entry and receives no more images
\* (it has been Quiet) leaves the registry with its archive in sent and its
\* raw tree gone, or in failed and its raw tree kept; an entry leaves the
\* registry only through the pop of a flush that locked it.
C19_StudyEventuallyFlushed ==
    /\ (\E k \in quiet : ~Flushed(k))
          ~> ((\A k \in quiet : Flushed(k)) \/ stopFlag \/ ~Running)
    /\ [][ \A k \in Keys :
             (Get(k) # 0 /\ GetIn(studies', k) = 0)
               => (spc = "pop" /\ cur.key = k /\ objs[cur.st].locked) ]_vars

\* a study was tracked and has left the registry, its archive in failed and
\* its raw tree kept, neither stop nor exception having occurred
C19_Witness ==
    /\ Running
    /\ ~stopFlag
    /\ requests = MaxImages
    /\ \E k \in Keys :
          /\ lastAccept[k] >= 0
          /\ Flushed(k)
          /\ k \in dirs
          /\ studies = <<>>

\* what belongs to study k is the same before and after the step: its
\* registry entry, its directory and files, its archives in sent and failed
Untouched(k) ==
    /\ GetIn(studies', k) = GetIn(studies, k)
    /\ (k \in dirs') <=> (k \in dirs)
    /\ { f \in files' : f.dir = k } = { f \in files : f.dir = k }
    /\ { r \in sent' : r.key = k } = { r \in sent : r.key = k }
    /\ { r \in failed' : r.key = k } = { r \in failed : r.key = k }

\* C20: a pass takes 'now' once, at its start (cutoff = now - idle_seconds),
\* and visits a snapshot of the registry; a visited study is flushed exactly
\* when it is unlocked and now - last_update_ts >= idle_seconds; a skipped
\* study is left as it is, and the steps of a flush touch the flushed study
\* only.
C20_ScanSelection ==
    [][ /\ (spc = "loop" /\ spc' = "snapshot") => cutoff' + IdleSeconds = clock
        /\ spc # "loop" => cutoff' = cutoff
        /\ (spc = "snapshot" /\ spc' = "iter") => snap' = studies
        /\ (spc = "iter" /\ snap # <<>> /\ snap' # snap) =>
              LET e == Head(snap)
                  now_ == cutoff + IdleSeconds
              IN  /\ spc' \in {"iter", "lock"}
                  /\ spc' = "lock" <=>
                        /\ ~objs[e.st].locked
                        /\ now_ - objs[e.st].last_update_ts >= IdleSeconds
                  /\ spc' = "lock" => cur' = e
                  /\ spc' = "iter" =>
                        /\ cur' = cur
                        /\ \A k \in Keys : Untouched(k)
                        /\ objs'[e.st] \in {objs[e.st], Reclaimed}
        /\ (ScannerStep /\ (InFlush \/ spc = "lock")) =>
              /\ \A k \in Keys \ {cur.key} : Untouched(k)
              /\ \A i \in 1 .. Len(objs) :
                    i # cur.st => objs'[i] \in {objs[i], Reclaimed}
      ]_vars

\* a pass is about to flush a study idle for exactly idle_seconds while
\* another study of the registry is still within its idle window
C20_Witness ==
    /\ spc = "lock"
    /\ objs[cur.st].last_update_ts = cutoff
    /\ clock = cutoff + IdleSeconds
    /\ \E i \in 1 .. Len(studies) :
          /\ studies[i].key # cur.key
          /\ objs[studies[i].st].last_update_ts > cutoff

\* the case of future i is submitted and process_case has not returned yet
InProcess(i) == futs[i].st \in {"pending", "running"}

\* C29: at any time at most MAX_PARALLEL_CASES cases are submitted and not
\* yet completed, no two of them are for the same input file, and every one
\* of them is recorded in processing_files; a file is submitted only when it
\* is not in processing_files and the set is below capacity.
C29_BoundedParallelism ==
    /\ [](/\ Cardinality({ i \in 1 .. Len(futs) : InProcess(i) })
                <= MAX_PARALLEL_CASES
          /\ \A i, j \in 1 .. Len(futs) :
                (InProcess(i) /\ InProcess(j) /\ futs[i].file = futs[j].file)
                  => i = j
          /\ \A i \in 1 .. Len(futs) :
                InProcess(i) => futs[i].file \in processing_files
          /\ Cardinality(processing_files) <= MAX_PARALLEL_CASES)
    /\ [][ Len(futs') > Len(futs)
             => /\ futs'[Len(futs')].file \in processing_files
                /\ \A i \in 1 .. Len(futs) :
                      futs[i].file = futs'[Len(futs')].file => ~InProcess(i)
         ]_vars

\* MAX_PARALLEL_CASES cases are in process, one of them for a file that was
\* processed before, and the pass has stopped at a third file that waits in
\* INPUT_DIR
C29_Witness ==
    /\ rpc = "sleep"
    /\ current_files # <<>>
    /\ rf \notin processing_files
    /\ rf \in present
    /\ Cardinality({ i \in 1 .. Len(futs) : InProcess(i) }) = MAX_PARALLEL_CASES
    /\ \E i, j \in 1 .. Len(futs) :
          /\ futs[i].st = "done"
          /\ InProcess(j)
          /\ futs[i].file = futs[j].file

\* C30 (as stated): no thread waits for the lock while holding it: the main
\* thread never runs on_complete inside its own with-lock block, so a
\* callback that waits for the lock can always get it once the holder
\* leaves its block.
C30_NoLockDeadlock ==
    \A i \in 1 .. Len(futs) :
        futs[i].st = "callback" => futs[i].by # lock

\* the entries of archive z, as a set
EntrySet(z) == { z[i] : i \in 1 .. Len(z) }

\* C23 (as stated): every archive zip_study returns has exactly one entry for
\* each file under the study directory other than .DS_Store, under the
\* file's path relative to the study directory, and two calls on the same
\* directory contents return the same sequence of entries.
C23_DeterministicArchive ==
    /\ \A n \in 1 .. Len(zip_rets) :
          /\ EntrySet(zip_rets[n]) = zip_study(zip_dir)
          /\ Len(zip_rets[n]) = Cardinality(zip_study(zip_dir))
          /\ \A e \in EntrySet(zip_rets[n]) : e.stem # <<".DS_Store">>
    /\ \A m, n \in 1 .. Len(zip_rets) : zip_rets[m] = zip_rets[n]

\* C27: with upload_retries zero or negative a flush calls upload_zip not
\* once and sleeps not once: after zip_study it goes straight to storing the
\* archive, in failed_dir; it writes nothing to sent_dir, leaves the raw
\* directory as it is and removes the study from the registry.
C27_NoAttemptMeansFailed ==
    /\ [](upload_retries <= 0 =>
            /\ resps = <<>>
            /\ sleeps = <<>>
            /\ ~ok
            /\ spc \notin {"upload", "rmtree"}
            /\ sent = {}
            /\ (InFlush /\ Stored) =>
                  \E r \in failed : r.key = cur.key /\ r.content = zip_bytes)
    /\ [][ upload_retries <= 0 =>
             /\ (spc = "zip" /\ spc' # "zip" /\ ~raised') => spc' = "route"
             /\ (spc = "route" /\ spc' # "route" /\ ~raised') => spc' = "pop"
             /\ ScannerStep => (dirs' = dirs /\ files' = files)
             /\ (spc = "pop" /\ spc' = "finally") => GetIn(studies', cur.key) = 0
         ]_vars

\* no attempt was made: the archive is in failed, the raw files are still
\* there and the entry is gone
C27_Witness ==
    /\ upload_retries <= 0
    /\ spc = "finally"
    /\ ~raised
    /\ resps = <<>>
    /\ zip_bytes # {}
    /\ \E r \in failed : r.key = cur.key /\ r.content = zip_bytes
    /\ Instances(cur.key) # {}
    /\ Get(cur.key) = 0

\* the StudyState objects that are locked for flushing
Flushing == { i \in 1 .. Len(objs) : objs[i].locked }

RawUntouched(k) ==
    /\ GetIn(studies', k) = GetIn(studies, k)
    /\ (k \in dirs') <=> (k \in dirs)
    /\ { f \in files' : f.dir = k } = { f \in files : f.dir = k }

\* C22 (as stated): no step of the flush of a study changes the registry
\* entry or the raw directory of another study, whatever the outcome, and a
\* flush that ends without an exception, in failed as in sent, is followed
\* by the rest of the snapshot.
C22_FlushLeavesOthersAlone ==
    [][ /\ (ScannerStep /\ InFlush) =>
              \A k \in Keys \ {cur.key} :
                  /\ RawUntouched(k)
                  /\ GetIn(studies, k) # 0
                        => objs'[GetIn(studies, k)] = objs[GetIn(studies, k)]
        /\ (spc = "finally" /\ ~raised /\ spc' # "finally")
              => (spc' = "iter" /\ snap' = snap)
      ]_vars

\* key k names a directory below incoming_dir
ProperChild(k) == k \notin {<<".">>, <<".", ".">>}

\* C24 (as stated): the study directory on_c_store writes to, and the path
\* recorded in a StudyState, is a directory below incoming_dir, never
\* incoming_dir itself or its parent; so the rmtree of a flush removes only
\* the directory and the files of the flushed study.
C24_PathContainment ==
    /\ [](/\ \A h \in Handlers : hpc[h] # "idle" => ProperChild(hout[h].dir)
          /\ \A i \in 1 .. Len(objs) :
                objs[i] # Reclaimed => ProperChild(objs[i].path))
    /\ [][ spc = "rmtree" =>
             /\ \A f \in files \ files' : f.dir = cur.key
             /\ \A d \in dirs \ dirs' : d = cur.key ]_vars

\* C25 (as stated): every entry of an archive, as built and as stored in
\* sent_dir or failed_dir, is an instance file under its final name; no
\* entry is a temporary file of write_instance.
C25_NoTemporaryFileArchived ==
    /\ \A e \in zip_bytes : e.suffix = ".dcm"
    /\ \A r \in sent \cup failed : \A e \in r.content : e.suffix = ".dcm"

\* the archives of its study, in sent_dir and failed_dir, that contain file f
ArchivesOf(f) ==
    { r \in sent \cup failed : r.key = f.dir /\ Rel(f) \in r.content }

\* C26 (as stated): an accepted image is contained in at most one archive of
\* its study across sent_dir and failed_dir.  Every request so far has been
\* answered 0x0000 for a file of its own, so no image was sent twice.
C26_AtMostOneArchive ==
    Cardinality(accepted) = requests
        => \A f \in accepted : Cardinality(ArchivesOf(f)) <= 1

\* entries e1 and e2 of an archive are for the same series and instance
SamePair(e1, e2) ==
    /\ e1.top = e2.top
    /\ e1.series = e2.series
    /\ e1.stem = e2.stem

\* C28 (as stated): write_instance replaces the file of an image with the
\* same sanitized identifiers instead of adding one: when no call is under
\* way a study directory holds one file per (series, instance) pair, an
\* accepted image of a study with an unlocked registry entry has its file
\* there, and every archive has one entry per pair.
C28_OneFilePerInstance ==
    /\ [](/\ (\A h \in Handlers : hpc[h] = "idle") =>
                /\ \A f, g \in files :
                      (f.dir = g.dir /\ SamePair(Rel(f), Rel(g))) => f = g
                /\ \A f \in accepted :
                      (Get(f.dir) # 0 /\ ~objs[Get(f.dir)].locked /\ ~Archived(f))
                        => f \in files
          /\ \A r \in sent \cup failed : \A e1, e2 \in r.content :
                SamePair(e1, e2) => e1 = e2)
    /\ [][ \A h \in Handlers :
             (hpc[h] = "replace" /\ hpc'[h] = "get") =>
                Instances(hout[h].dir)' = Instances(hout[h].dir) \cup {hout[h]}
         ]_vars

====
